---------------------------- MODULE Spec2Model ----------------------------
(***************************************************************************)
(* Model of scripts/fetch_stock_data.py: the fetch / parse / upsert        *)
(* pipeline of StockDataFetcher (fetch_stock_data with its demo-data       *)
(* fallback, parse_stock_data, save_to_database, run_pipeline) and main.   *)
(*                                                                         *)
(* Abstractions:                                                           *)
(*  - a calendar date is a day number counted from 2023-12-01 (day 0); a   *)
(*    date string '%Y-%m-%d' is the tuple <<year, month, day>>, whose      *)
(*    lexicographic order is the order of the zero-padded strings;         *)
(*  - the five per-day fields (open, high, low, close, volume) are one     *)
(*    value, a "quote"; a field string is <<q>> for the digits of quote q  *)
(*    and << >> for the empty string, which float()/int() reject;          *)
(*  - database time is logical: the transaction of the symbol at position *)
(*    i of the run has CURRENT_TIMESTAMP i (the start time of the          *)
(*    transaction, later for every later symbol);                          *)
(*  - one iteration of get_demo_data is computed in fixed point: prices    *)
(*    in thousandths of a dollar, random factors in ten-thousandths;       *)
(*  - of dags/stock_data_dag.py one run is modelled: the state of each     *)
(*    task instance, its tries, and the fetch tasks inside an API call.    *)
(*                                                                         *)
(* Specifications: Spec and SpecDefault (run_pipeline), SpecMain (main     *)
(* from the construction), SpecFetch, SpecParse, SpecStore (one step of    *)
(* the loop over all its inputs), SpecDemo (one demo entry), SpecDag.      *)
(***************************************************************************)
EXTENDS Integers, Sequences, FiniteSets, TLC

\* ------------------------------------------------------------- bounds
MaxSymbols == 2

MaxQuote == 2

MaxLiveLen == 1

MaxClockAdvance == 1

StartDay == 33

MaxSeriesDays == 9

DrawSteps == 4

\* --------------------------------------------------- program constants
DemoDays == 7

ParseLimit == 7

Retries == 2

SymbolSet == {"AAPL", "MSFT"}

\* the symbols of a run started without arguments
DefaultSymbols == <<"AAPL", "GOOGL", "MSFT">>

Quotes == 1..MaxQuote

\* ------------------------------------------------------------ calendar
IsLeap(y) == (y % 4 = 0 /\ y % 100 # 0) \/ (y % 400 = 0)

DaysInMonth(y, m) ==
    IF m = 2 THEN (IF IsLeap(y) THEN 29 ELSE 28)
    ELSE IF m \in {4, 6, 9, 11} THEN 30 ELSE 31

RECURSIVE YMD(_, _, _)
\* the date n days after the first day of month m of year y
YMD(y, m, n) ==
    IF n < DaysInMonth(y, m) THEN <<y, m, n + 1>>
    ELSE IF m = 12 THEN YMD(y + 1, 1, n - DaysInMonth(y, m))
    ELSE YMD(y, m + 1, n - DaysInMonth(y, m))

\* datetime.strftime('%Y-%m-%d') of day number n
strftime(n) == YMD(2023, 12, n)

RECURSIVE DaysBefore(_, _)
\* number of days from 2023-12-01 to the first day of month m of year y
DaysBefore(y, m) ==
    IF y = 2023 /\ m = 12 THEN 0
    ELSE IF m = 1 THEN DaysBefore(y - 1, 12) + DaysInMonth(y - 1, 12)
    ELSE DaysBefore(y, m - 1) + DaysInMonth(y, m - 1)

\* datetime.strptime(s, '%Y-%m-%d').date() as a day number
strptime(s) == DaysBefore(s[1], s[2]) + s[3] - 1

\* order of two date strings (zero padded, so field by field)
StrLess(a, b) ==
    \/ a[1] < b[1]
    \/ a[1] = b[1] /\ a[2] < b[2]
    \/ a[1] = b[1] /\ a[2] = b[2] /\ a[3] < b[3]

RECURSIVE SortedDesc(_)
\* sorted(keys, reverse=True)
SortedDesc(S) ==
    IF S = {} THEN << >>
    ELSE LET top == CHOOSE k \in S : \A o \in S : o = k \/ StrLess(o, k)
         IN  <<top>> \o SortedDesc(S \ {top})

\* seq[:n]
Take(seq, n) == SubSeq(seq, 1, IF Len(seq) < n THEN Len(seq) ELSE n)

Range(seq) == {seq[i] : i \in 1..Len(seq)}

\* ------------------------------------------------------- field strings
\* f"{x:.2f}" / str(volume): the text of a quote
Fmt(q) == <<q>>

\* the empty string: float('') and int('') raise ValueError
BadField == << >>

\* a per-day mapping that lacks a field: daily_data['1. open'] raises
\* KeyError
NoField == <<0, 0>>

IsNumeric(s) == Len(s) = 1

\* a key that is no date: strptime raises ValueError
BadDateKey == <<2023, 11, 31>>

\* strptime(s, '%Y-%m-%d') accepts the string
IsDate(s) == s[2] \in 1..12 /\ s[3] \in 1..DaysInMonth(s[1], s[2])

\* float(s) / int(s) of a numeric field string
ToNumber(s) == s[1]

\* -------------------------------------------------- responses and data
BodyKeys == {"Error Message", "Note", "Information", "Time Series (Daily)"}

TransportFailures == {"Timeout", "ConnectionError", "HTTPError", "BadJSON"}

\* None
NoData == [meta |-> "none", ts |-> << >>]

\* Python truth of the value fetch_stock_data returns (None or a dict)
Truthy(data) == data.meta # "none"

\* get_demo_data: iteration i (0..6) reads the clock (readings[i + 1]) and
\* stores an entry under the date i days before that reading; a repeated
\* key overwrites the entry
get_demo_data(readings, q) ==
    [meta |-> "demo",
     ts   |-> [k \in {strftime(readings[i + 1] - i) : i \in 0..(DemoDays - 1)}
                 |-> Fmt(q)]]

\* fetch_stock_data with a fault: the body is looked up for the series
\* before the indicator keys
fetch_stock_data_series_first(resp, demo) ==
    IF resp.status # "ok" THEN demo
    ELSE IF "Time Series (Daily)" \in resp.keys
    THEN [meta |-> "live", ts |-> resp.ts]
    ELSE IF "Error Message" \in resp.keys THEN NoData
    ELSE IF "Note" \in resp.keys THEN NoData
    ELSE demo

\* fetch_stock_data after the HTTP call: resp is the outcome of the call,
\* demo what get_demo_data returns if it is called
fetch_stock_data(resp, demo) ==
    IF resp.status # "ok" THEN demo
    ELSE IF "Error Message" \in resp.keys THEN NoData
    ELSE IF "Note" \in resp.keys THEN NoData
    ELSE IF "Information" \in resp.keys THEN demo
    ELSE IF "Time Series (Daily)" \notin resp.keys THEN demo
    ELSE [meta |-> "live", ts |-> resp.ts]

\* the paths of fetch_stock_data that call get_demo_data
CallsDemo(resp) ==
    \/ resp.status # "ok"
    \/ /\ "Error Message" \notin resp.keys
       /\ "Note" \notin resp.keys
       /\ \/ "Information" \in resp.keys
          \/ "Time Series (Daily)" \notin resp.keys

\* a dict without 'Time Series (Daily)': data['Time Series (Daily)'] raises
\* KeyError
NoSeries == [meta |-> "malformed", ts |-> << >>]

HasSeries(data) == data.meta \in {"demo", "live"}

\* sorted with a fault: reverse=True is missing
SortedAsc(S) ==
    LET desc == SortedDesc(S)
    IN  [i \in 1..Len(desc) |-> desc[Len(desc) + 1 - i]]

\* sorted_dates with a fault: the 7 smallest keys, ascending
sorted_dates_ascending(data) == Take(SortedAsc(DOMAIN data.ts), ParseLimit)

\* the date keys parse_stock_data converts
sorted_dates(data) == Take(SortedDesc(DOMAIN data.ts), ParseLimit)

\* parse_stock_data with a fault: the handler returns the records
\* converted before the failure
parse_stock_data_partial(data, symbol) ==
    IF ~HasSeries(data) THEN << >>
    ELSE LET keys == sorted_dates(data)
             ok(i) == IsDate(keys[i]) /\ IsNumeric(data.ts[keys[i]])
             n == IF \A i \in 1..Len(keys) : ok(i) THEN Len(keys)
                  ELSE (CHOOSE i \in 1..Len(keys) :
                          ~ok(i) /\ \A j \in 1..(i - 1) : ok(j)) - 1
         IN  [i \in 1..n |->
                 [symbol |-> symbol,
                  date   |-> strptime(keys[i]),
                  quote  |-> ToNumber(data.ts[keys[i]])]]

\* parse_stock_data: the 7 greatest date keys, descending; a missing
\* series, a key that is no date or a field that fails conversion raises
\* inside the try, and the handler returns the empty list
parse_stock_data(data, symbol) ==
    IF ~HasSeries(data) THEN << >>
    ELSE LET keys == sorted_dates(data)
         IN  IF \E i \in 1..Len(keys) :
                   ~IsDate(keys[i]) \/ ~IsNumeric(data.ts[keys[i]])
             THEN << >>
             ELSE [i \in 1..Len(keys) |->
                      [symbol |-> symbol,
                       date   |-> strptime(keys[i]),
                       quote  |-> ToNumber(data.ts[keys[i]])]]

\* ------------------------------------------------------------ database
SameKey(r, rec) == r.symbol = rec.symbol /\ r.date = rec.date

\* Upsert with a fault: ON CONFLICT (symbol, date) DO NOTHING
UpsertDoNothing(rows, rec, now) ==
    IF \E r \in rows : SameKey(r, rec)
    THEN rows
    ELSE rows \cup {[symbol |-> rec.symbol, date |-> rec.date,
                     quote |-> rec.quote, created_at |-> now]}

\* INSERT ... ON CONFLICT (symbol, date) DO UPDATE SET ... on a set of rows,
\* at transaction time now
Upsert(rows, rec, now) ==
    IF \E r \in rows : SameKey(r, rec)
    THEN {IF SameKey(r, rec)
          THEN [r EXCEPT !.quote = rec.quote, !.created_at = now]
          ELSE r : r \in rows}
    ELSE rows \cup {[symbol |-> rec.symbol, date |-> rec.date,
                     quote |-> rec.quote, created_at |-> now]}

RECURSIVE ExecuteMany(_, _, _)
\* cursor.executemany: one statement per record, in order
ExecuteMany(rows, recs, now) ==
    IF Len(recs) = 0 THEN rows
    ELSE ExecuteMany(Upsert(rows, Head(recs), now), Tail(recs), now)

\* VisibleBeforeCommit with a fault: a connection in autocommit mode
VisibleAutocommit(committed, view) == view

\* what other sessions see of a transaction's writes before it commits:
\* the connection is not in autocommit mode
VisibleBeforeCommit(committed, view) == committed

\* --------------------------------------------------------------- state
VARIABLES
    symbols,          \* run_pipeline's argument
    idx,              \* position of the for loop in symbols
    pc,               \* the statement the process is at
    overall_success,  \* run_pipeline's flag
    response,         \* outcome of the HTTP call (local to fetch_stock_data)
    raw_data,         \* run_pipeline's raw_data
    parsed_records,   \* run_pipeline's parsed_records
    clock,            \* the local clock, as a day number
    table,            \* committed rows of stock_prices
    txnView,          \* rows as the open transaction sees them
    connection,       \* save_to_database's connection: none / open / closed
    cursor,           \* save_to_database's cursor: unbound / open / closed
    openConns,        \* connections opened by the process and not closed
    raised,           \* exception propagating out of save_to_database
    retval,           \* value save_to_database returns
    outcome,          \* per position: the terminal state of the symbol
    trace,            \* history: the stages run and the pauses made, as
                      \* <<position, stage>>
    ledger,           \* history: per key, the values last committed and the
                      \* time of the commit that first inserted it
    saveStartTable,   \* history: table when the current Store call began
    exit_code,        \* sys.exit's argument, -1 while running
    api_key,          \* what os.getenv('ALPHA_VANTAGE_API_KEY') returns
    draws,            \* the random values of one iteration of get_demo_data
    entry,            \* the entry that iteration emits
    ti_state,         \* per task of the DAG: the state of its task instance
    try_number,       \* per task of the DAG: the tries started
    in_call           \* the fetch tasks whose process is inside its API call

vars == <<symbols, idx, pc, overall_success, response, raw_data,
          parsed_records, clock, table, txnView, connection, cursor,
          openConns, raised, retval, outcome, trace, ledger, saveStartTable,
          exit_code, api_key, draws, entry, ti_state, try_number, in_call>>

runnerVars == <<symbols, idx, overall_success, outcome>>

\* what the loop of run_pipeline does not touch
sideVars == <<api_key, draws, entry, ti_state, try_number, in_call>>

dataVars == <<response, raw_data, parsed_records, clock>>

dbVars == <<table, txnView, connection, cursor, openConns, raised,
            retval, ledger, saveStartTable>>

\* CURRENT_TIMESTAMP in the transaction of the current Store call
dbNow == idx

NoResponse == [status |-> "none", keys |-> {}, ts |-> << >>]

\* the symbol lists a run is started with; the symbols are handled alike,
\* so the first one is fixed
SymbolLists ==
    {l \in UNION {[1..n -> SymbolSet] : n \in 1..MaxSymbols} : l[1] = "AAPL"}

\* the outcomes of requests.get / raise_for_status / response.json: a
\* transport failure, or a body with any of the four keys.  The series of
\* a body that also carries an indicator key is never read, and is empty
Responses(now) ==
    {[status |-> f, keys |-> {}, ts |-> << >>] : f \in TransportFailures}
    \cup {[status |-> "ok", keys |-> ks, ts |-> << >>] :
             ks \in SUBSET BodyKeys}
    \cup {[status |-> "ok", keys |-> {"Time Series (Daily)"},
           ts |-> [k \in {strftime(now - j) : j \in 1..n} |-> f]] :
             n \in 1..MaxLiveLen,
             f \in {Fmt(q) : q \in Quotes} \cup {BadField}}

\* the clock values the 7 iterations of one get_demo_data call can read:
\* the clock does not go back, and at most one midnight passes during the
\* call
ClockReadings(now) ==
    LET last == IF now < StartDay + MaxClockAdvance THEN now + 1 ELSE now
    IN  {r \in [1..DemoDays -> now..last] :
            \A i \in 1..(DemoDays - 1) : r[i] <= r[i + 1]}

\* os.getenv('ALPHA_VANTAGE_API_KEY'): None (rendered "none"), the empty
\* string, or a key
ApiKeys == {"none", "", "demo-key"}

\* `not self.api_key`
KeyMissing(key) == key \in {"none", ""}

\* no iteration of get_demo_data is looked at
NoDraws ==
    [open_jitter |-> 0, daily_change |-> 0, high_jitter |-> 0,
     low_jitter |-> 0, volume |-> 0]

NoEntry == [open |-> 0, high |-> 0, low |-> 0, close |-> 0, volume |-> 0]

\* the tasks of the DAG stock_data_pipeline
CheckTasks == {"check_api_connection", "check_database_connection"}

FetchTasks == {"fetch_aapl_data", "fetch_googl_data", "fetch_msft_data"}

Tasks ==
    {"start_pipeline", "verify_data_saved", "pipeline_complete"}
    \cup CheckTasks \cup FetchTasks

\* no iteration of get_demo_data is looked at
NoDemo == draws = NoDraws /\ entry = NoEntry

\* no task instance of the DAG has been scheduled
NoDagRun ==
    /\ ti_state = [t \in Tasks |-> "none"]
    /\ try_number = [t \in Tasks |-> 0]
    /\ in_call = {}

\* the process of main with the credential key and the arguments list, at
\* position p, with the locals data and recs
Process(key, list, p, data, recs) ==
    /\ api_key = key
    /\ symbols = list
    /\ idx = 1
    /\ pc = p
    /\ overall_success = TRUE
    /\ response = NoResponse
    /\ raw_data = data
    /\ parsed_records = recs
    /\ clock = StartDay
    /\ table = {}
    /\ txnView = {}
    /\ connection = "none"
    /\ cursor = "unbound"
    /\ openConns = 0
    /\ raised = "none"
    /\ retval = FALSE
    /\ outcome = [i \in 1..Len(symbols) |-> "pending"]
    /\ trace = << >>
    /\ ledger = {}
    /\ saveStartTable = {}
    /\ exit_code = -1

\* that process alone: no single iteration of get_demo_data and no DAG
\* run is looked at
ProcessAt(key, list, p, data, recs) ==
    Process(key, list, p, data, recs) /\ NoDemo /\ NoDagRun

\* the first symbol of run_pipeline(list) at position p of the loop body,
\* with the locals data and recs
StartAt(list, p, data, recs) == ProcessAt("demo-key", list, p, data, recs)

\* the state when run_pipeline(list) starts its loop
Start(list) == StartAt(list, "fetch", NoData, << >>)

Init == \E list \in SymbolLists : Start(list)

\* a run of main without arguments
InitDefault == Start(DefaultSymbols)

\* --------------------------------------------------------- run_pipeline
\* FailSymbol with a fault: the parse branch does not clear the flag
FailSymbolParseKeepsFlag(stage) ==
    /\ outcome' = [outcome EXCEPT ![idx] = stage]
    /\ overall_success' = IF stage = "parse_failed" THEN overall_success
                          ELSE FALSE
    /\ pc' = "next"

\* FailSymbol with a fault: a failure of the Store ends the loop (break)
FailSymbolStoreBreaks(stage) ==
    /\ outcome' = [outcome EXCEPT ![idx] = stage]
    /\ overall_success' = FALSE
    /\ pc' = IF stage \in {"store_failed", "exception"} THEN "returned"
             ELSE "next"

\* FailSymbol with a fault: the pause follows the failure branches too
FailSymbolPauses(stage) ==
    /\ outcome' = [outcome EXCEPT ![idx] = stage]
    /\ overall_success' = FALSE
    /\ pc' = "sleep"

\* a failure branch of the loop body: log, overall_success = False, continue
FailSymbol(stage) ==
    /\ outcome' = [outcome EXCEPT ![idx] = stage]
    /\ overall_success' = FALSE
    /\ pc' = "next"

\* raw_data = self.fetch_stock_data(symbol)
Fetch ==
    /\ pc = "fetch"
    /\ \E resp \in Responses(clock) :
          /\ response' = resp
          /\ IF CallsDemo(resp)
             THEN \E r \in ClockReadings(clock), q \in Quotes :
                    /\ raw_data' = fetch_stock_data(resp, get_demo_data(r, q))
                    /\ clock' = r[DemoDays]
             ELSE /\ raw_data' = fetch_stock_data(resp, NoData)
                  /\ clock' = clock
    /\ trace' = Append(trace, <<idx, "fetch">>)
    /\ pc' = "fetched"
    /\ UNCHANGED <<runnerVars, parsed_records, dbVars, exit_code, sideVars>>

\* if not raw_data: ... continue
CheckFetched ==
    /\ pc = "fetched"
    /\ response' = NoResponse
    /\ IF Truthy(raw_data)
       THEN pc' = "parse" /\ UNCHANGED <<overall_success, outcome>>
       ELSE FailSymbol("fetch_failed")
    /\ UNCHANGED <<symbols, idx, raw_data, parsed_records, clock, dbVars,
                   trace, exit_code,
                   sideVars>>

\* parsed_records = self.parse_stock_data(raw_data, symbol);
\* if not parsed_records: ... continue
Parse ==
    /\ pc = "parse"
    /\ parsed_records' = parse_stock_data(raw_data, symbols[idx])
    /\ trace' = Append(trace, <<idx, "parse">>)
    /\ IF Len(parsed_records') > 0
       THEN pc' = "save" /\ UNCHANGED <<overall_success, outcome>>
       ELSE FailSymbol("parse_failed")
    /\ UNCHANGED <<symbols, idx, response, raw_data, clock, dbVars, exit_code,
                   sideVars>>

\* ----------------------------------------------------------------- main
\* sys.exit(code): the process ends, its frames and their locals are gone,
\* and its connections are closed, which aborts their open transactions
ExitProcess(code) ==
    /\ exit_code' = code
    /\ pc' = "exited"
    /\ response' = NoResponse
    /\ raw_data' = NoData
    /\ parsed_records' = << >>
    /\ retval' = FALSE
    /\ raised' = "none"
    /\ connection' = "none"
    /\ cursor' = "unbound"
    /\ openConns' = 0
    /\ txnView' = table
    /\ saveStartTable' = table
    /\ UNCHANGED <<runnerVars, clock, table, ledger, trace, sideVars>>

\* ----------------------------------------------------- save_to_database
RECURSIVE LedgerCommit(_, _, _)
\* history of a committed batch: the values of a key are those of the last
\* batch, its time that of the commit that first inserted the key
LedgerCommit(led, recs, now) ==
    IF Len(recs) = 0 THEN led
    ELSE LET rec == Head(recs)
             old == {r \in led : SameKey(r, rec)}
             new == [symbol |-> rec.symbol, date |-> rec.date,
                     quote |-> rec.quote,
                     created_at |-> IF old = {} THEN now
                                    ELSE (CHOOSE r \in old : TRUE).created_at]
         IN  LedgerCommit((led \ old) \cup {new}, Tail(recs), now)

\* Connect with a fault: the connection is acquired before the list is
\* looked at
ConnectBeforeCheck ==
    /\ pc = "save"
    /\ trace' = Append(trace, <<idx, "store">>)
    /\ saveStartTable' = table
    /\ raised' = "none"
    /\ cursor' = "unbound"
    /\ \E connected \in BOOLEAN :
          IF connected
          THEN /\ connection' = "open"
               /\ openConns' = openConns + 1
               /\ txnView' = table
               /\ IF Len(parsed_records) = 0
                  THEN retval' = FALSE /\ pc' = "saved"
                  ELSE pc' = "cursor" /\ UNCHANGED retval
          ELSE /\ retval' = FALSE
               /\ pc' = "saved"
               /\ UNCHANGED <<connection, openConns, txnView>>
    /\ UNCHANGED <<runnerVars, dataVars, table, ledger, exit_code, sideVars>>

\* if not records: return False; connection = self.connect_to_database();
\* if not connection: return False
Connect ==
    /\ pc = "save"
    /\ trace' = Append(trace, <<idx, "store">>)
    /\ saveStartTable' = table
    /\ raised' = "none"
    /\ cursor' = "unbound"
    /\ IF Len(parsed_records) = 0
       THEN /\ retval' = FALSE
            /\ pc' = "saved"
            /\ UNCHANGED <<connection, openConns, txnView>>
       ELSE \E connected \in BOOLEAN :
              IF connected
              THEN /\ connection' = "open"
                   /\ openConns' = openConns + 1
                   /\ txnView' = table
                   /\ pc' = "cursor"
                   /\ UNCHANGED retval
              ELSE /\ retval' = FALSE
                   /\ pc' = "saved"
                   /\ UNCHANGED <<connection, openConns, txnView>>
    /\ UNCHANGED <<runnerVars, dataVars, table, ledger, exit_code, sideVars>>

\* cursor = connection.cursor(), which returns or raises
Cursor ==
    /\ pc = "cursor"
    /\ \E created \in BOOLEAN :
          IF created
          THEN cursor' = "open" /\ pc' = "exec"
          ELSE cursor' = cursor /\ pc' = "except"
    /\ UNCHANGED <<runnerVars, dataVars, table, txnView, connection,
                   openConns, raised, retval, ledger, saveStartTable, trace,
                   exit_code, sideVars>>

\* cursor.executemany(insert_query, records): the first k statements run,
\* then either all are done or statement k + 1 raises
Execute ==
    /\ pc = "exec"
    /\ \E k \in 0..Len(parsed_records) :
          /\ txnView' = ExecuteMany(txnView, Take(parsed_records, k), dbNow)
          /\ pc' = IF k = Len(parsed_records) THEN "commit" ELSE "except"
    /\ table' = VisibleBeforeCommit(table, txnView')
    /\ UNCHANGED <<runnerVars, dataVars, connection, cursor, openConns,
                   raised, retval, ledger, saveStartTable, trace, exit_code,
                   sideVars>>

\* connection.commit(), which makes the transaction's rows the table's or
\* raises with nothing committed; return True
Commit ==
    /\ pc = "commit"
    /\ \E committed \in BOOLEAN :
          IF committed
          THEN /\ table' = txnView
               /\ ledger' = LedgerCommit(ledger, parsed_records, dbNow)
               /\ retval' = TRUE
               /\ pc' = "finally"
          ELSE /\ pc' = "except"
               /\ UNCHANGED <<table, ledger, retval>>
    /\ UNCHANGED <<runnerVars, dataVars, txnView, connection, cursor,
                   openConns, raised, saveStartTable, trace, exit_code,
                   sideVars>>

\* except Exception: connection.rollback(), which returns or raises;
\* return False
Rollback ==
    /\ pc = "except"
    /\ \E rolledBack \in BOOLEAN :
          IF rolledBack
          THEN /\ txnView' = table
               /\ retval' = FALSE
               /\ UNCHANGED raised
          ELSE /\ raised' = "Exception"
               /\ UNCHANGED <<txnView, retval>>
    /\ pc' = "finally"
    /\ UNCHANGED <<runnerVars, dataVars, table, connection, cursor,
                   openConns, ledger, saveStartTable, trace, exit_code,
                   sideVars>>

\* finally: cursor.close(); connection.close().  cursor.close() raises
\* UnboundLocalError when connection.cursor() never returned, and then
\* connection.close() is not reached; closing the connection discards
\* the uncommitted work.  A pending KeyboardInterrupt then leaves
\* run_pipeline (it is no Exception) and main exits with code 0
Finally ==
    /\ pc = "finally"
    /\ IF cursor = "unbound"
       THEN /\ raised' = "Exception"
            /\ pc' = "saved"
            /\ UNCHANGED <<runnerVars, dataVars, table, txnView, connection,
                           cursor, openConns, retval, ledger, saveStartTable,
                           trace, exit_code,
                   sideVars>>
       ELSE IF raised = "KeyboardInterrupt"
       THEN ExitProcess(0)
       ELSE /\ cursor' = "closed"
            /\ connection' = "closed"
            /\ openConns' = openConns - 1
            /\ txnView' = table
            /\ pc' = "saved"
            /\ UNCHANGED <<runnerVars, dataVars, table, raised, retval,
                           ledger, saveStartTable, trace, exit_code,
                   sideVars>>

\* if not self.save_to_database(parsed_records): ... continue;
\* except Exception: ... continue
AfterSave ==
    /\ pc = "saved"
    /\ IF raised = "Exception"
       THEN FailSymbol("exception")
       ELSE IF ~retval
       THEN FailSymbol("store_failed")
       ELSE /\ outcome' = [outcome EXCEPT ![idx] = "stored_ok"]
            /\ pc' = "sleep"
            /\ UNCHANGED overall_success
    /\ raised' = "none"
    /\ connection' = "none"
    /\ cursor' = "unbound"
    /\ UNCHANGED <<symbols, idx, dataVars, table, txnView, openConns,
                   retval, ledger, saveStartTable, trace, exit_code,
                   sideVars>>

\* time.sleep(12)
Sleep ==
    /\ pc = "sleep"
    /\ pc' = "next"
    /\ trace' = Append(trace, <<idx, "sleep">>)
    /\ UNCHANGED <<runnerVars, dataVars, dbVars, exit_code, sideVars>>

\* Continue with a fault: a symbol that failed is fetched again
ContinueRetry ==
    /\ pc = "next"
    /\ idx' = IF outcome[idx] = "stored_ok" THEN idx + 1 ELSE idx
    /\ pc' = IF idx' <= Len(symbols) THEN "fetch" ELSE "returned"
    /\ raw_data' = NoData
    /\ parsed_records' = << >>
    /\ retval' = FALSE
    /\ saveStartTable' = table
    /\ UNCHANGED <<symbols, overall_success, outcome, response, clock, table,
                   txnView, connection, cursor, openConns, raised,
                   ledger, trace, exit_code,
                   sideVars>>

\* the for statement takes the next symbol, or the loop ends and
\* run_pipeline returns overall_success.  The locals of the loop body are
\* assigned before they are read again, so their old values are dropped
Continue ==
    /\ pc = "next"
    /\ idx' = idx + 1
    /\ pc' = IF idx < Len(symbols) THEN "fetch" ELSE "returned"
    /\ raw_data' = NoData
    /\ parsed_records' = << >>
    /\ retval' = FALSE
    /\ saveStartTable' = table
    /\ UNCHANGED <<symbols, overall_success, outcome, response, clock, table,
                   txnView, connection, cursor, openConns, raised,
                   ledger, trace, exit_code,
                   sideVars>>

\* Construct with a fault: the credential is not looked at
ConstructWithoutCheck ==
    /\ pc = "main"
    /\ pc' = "fetch"
    /\ UNCHANGED <<runnerVars, dataVars, dbVars, trace, exit_code,
                   sideVars>>

\* fetcher = StockDataFetcher(): without a credential __init__ raises
\* ValueError, which main's `except Exception` turns into sys.exit(1);
\* with one, run_pipeline(symbols) is entered
Construct ==
    /\ pc = "main"
    /\ IF KeyMissing(api_key)
       THEN ExitProcess(1)
       ELSE /\ pc' = "fetch"
            /\ UNCHANGED <<runnerVars, dataVars, dbVars, trace, exit_code,
                           sideVars>>

\* main after run_pipeline returned: sys.exit(0) or sys.exit(1)
Exit ==
    /\ pc = "returned"
    /\ ExitProcess(IF overall_success THEN 0 ELSE 1)

\* an external interrupt (KeyboardInterrupt) at the current statement.
\* Inside save_to_database's try the finally block runs with it pending
\* (during executemany after the first k statements have run); anywhere
\* else, the finally block included, it propagates to main, whose handler
\* exits with code 0
Interrupt ==
    /\ pc \in {"fetch", "fetched", "parse", "save", "cursor", "exec",
                "commit", "except", "finally", "saved", "sleep", "next"}
    /\ IF pc \in {"cursor", "commit", "except"}
       THEN /\ raised' = "KeyboardInterrupt"
            /\ pc' = "finally"
            /\ UNCHANGED <<runnerVars, dataVars, table, txnView, connection,
                           cursor, openConns, retval, ledger, saveStartTable,
                           trace, exit_code,
                   sideVars>>
       ELSE IF pc = "exec"
       THEN /\ raised' = "KeyboardInterrupt"
            /\ pc' = "finally"
            /\ \E k \in 0..(Len(parsed_records) - 1) :
                  txnView' = ExecuteMany(txnView, Take(parsed_records, k),
                                         dbNow)
            /\ table' = VisibleBeforeCommit(table, txnView')
            /\ UNCHANGED <<runnerVars, dataVars, connection, cursor,
                           openConns, retval, ledger, saveStartTable, trace,
                           exit_code, sideVars>>
       ELSE ExitProcess(0)

Next ==
    \/ Fetch
    \/ CheckFetched
    \/ Parse
    \/ Connect
    \/ Cursor
    \/ Execute
    \/ Commit
    \/ Rollback
    \/ Finally
    \/ AfterSave
    \/ Sleep
    \/ Continue
    \/ Exit
    \/ Interrupt

Spec == Init /\ [][Next]_vars

\* main from its first statement, for every value of the credential
InitMain ==
    \E key \in ApiKeys, list \in SymbolLists :
        ProcessAt(key, list, "main", NoData, << >>)

NextMain == Construct \/ Next

SpecMain == InitMain /\ [][NextMain]_vars

SpecDefault == InitDefault /\ [][Next]_vars

\* run_pipeline as far as the fetch step takes it: a symbol whose fetch
\* failed is followed by the next one
NextFetch == Fetch \/ CheckFetched \/ Continue

SpecFetch == Init /\ [][NextFetch]_vars

\* ------------------------------------------------------------ properties
\* the HTTP call succeeded in the claim's sense: a body with the time
\* series and no indicator key
IsSuccess(resp) ==
    /\ resp.status = "ok"
    /\ resp.keys = {"Time Series (Daily)"}

InSave == pc \in {"cursor", "exec", "commit", "except", "finally", "saved"}

\* a row or record without its timestamp
Fields(rows) ==
    {[symbol |-> r.symbol, date |-> r.date, quote |-> r.quote] : r \in rows}

\* what the table is after the whole of the current batch is written
WholeBatch == ExecuteMany(saveStartTable, parsed_records, dbNow)

\* the stages run for position i, in the order they ran
StagesOf(i) ==
    LET own == SelectSeq(trace, LAMBDA e : e[1] = i /\ e[2] # "sleep")
    IN  [j \in 1..Len(own) |-> own[j][2]]

AllStages == <<"fetch", "parse", "store">>

\* the stages a symbol that ended in state o went through
StagesFor(o) ==
    IF o = "fetch_failed" THEN SubSeq(AllStages, 1, 1)
    ELSE IF o = "parse_failed" THEN SubSeq(AllStages, 1, 2)
    ELSE AllStages

IsPrefix(a, b) == Len(a) <= Len(b) /\ a = SubSeq(b, 1, Len(a))

Failed == {"fetch_failed", "parse_failed", "store_failed", "exception"}

\* C1: every outcome of the live call that is not a success (Error
\* Message, Note, Information, missing time series, transport failure)
\* makes fetch_stock_data return demo data, and no symbol ends in
\* fetch_failed.
C1_EveryFailureFallsBack ==
    /\ (pc = "fetched" /\ ~IsSuccess(response)) => raw_data.meta = "demo"
    /\ \A i \in 1..Len(symbols) : outcome[i] # "fetch_failed"

\* C2: the created_at of every row is the time of the first commit that
\* inserted its key, whatever was stored over it later.
C2_CreatedAtKept ==
    \A r \in table : \E l \in ledger :
        SameKey(r, l) /\ r.created_at = l.created_at

\* C3: once save_to_database has ended, on any exit path, the cursor (if
\* one was created) and the connection are closed: the process holds no
\* open connection outside the call.
C3_ReleasedOnEveryExit ==
    ~(pc \in {"cursor", "exec", "commit", "except", "finally"}) =>
        /\ openConns = 0
        /\ cursor # "open"

\* C4: during and after a save_to_database call the table holds either
\* none or all of the batch's records, whether the call commits, fails on
\* a record, fails to commit or is interrupted.
C4_BatchAtomic ==
    InSave => (table = saveStartTable \/ table = WholeBatch)

\* C4 witness: a call is ending with only part of its batch written in
\* its transaction.
C4_Witness ==
    /\ pc = "finally"
    /\ connection = "open"
    /\ txnView # saveStartTable
    /\ txnView # WholeBatch

\* C5: the table has at most one row per (symbol, date), the values of
\* each row are those of the last committed batch holding its key, and
\* storing the batch a Store call is about to write twice gives the same
\* values as storing it once.
C5_UniqueKeyLastWriteWins ==
    /\ Cardinality({<<r.symbol, r.date>> : r \in table}) = Cardinality(table)
    /\ Fields(table) = Fields(ledger)
    /\ pc = "exec" =>
          LET once == ExecuteMany(table, parsed_records, dbNow)
          IN  Fields(ExecuteMany(once, parsed_records, dbNow + 1))
                  = Fields(once)

\* C5 witness: a batch was committed over a row of the same key that held
\* other values.
C5_Witness ==
    /\ pc = "saved"
    /\ retval
    /\ \E r \in saveStartTable : \E i \in 1..Len(parsed_records) :
          SameKey(r, parsed_records[i]) /\ r.quote # parsed_records[i].quote

\* C6: run_pipeline returns True exactly when every symbol of the list
\* ended stored_ok.
C6_ResultIsConjunction ==
    pc = "returned" =>
        (overall_success <=>
            \A i \in 1..Len(symbols) : outcome[i] = "stored_ok")

\* C6 witness: a run returned with its first symbol failed and its last
\* symbol stored.
C6_Witness ==
    /\ pc = "returned"
    /\ Len(symbols) > 1
    /\ outcome[1] \in Failed
    /\ outcome[Len(symbols)] = "stored_ok"

\* C7: the symbols are processed in list order, one at a time, each
\* through fetch, parse, store up to its first failing stage and no
\* further, each stage at most once (no retry); when run_pipeline
\* returns, every symbol is in a terminal state.
C7_OncePerSymbolInOrder ==
    /\ \A j \in 1..(Len(trace) - 1) : trace[j][1] <= trace[j + 1][1]
    /\ \A i \in 1..Len(symbols) :
          LET ran == StagesOf(i)
          IN  IF outcome[i] # "pending" THEN ran = StagesFor(outcome[i])
              ELSE IF i = idx THEN IsPrefix(ran, AllStages)
              ELSE i > idx /\ ran = << >>
    /\ pc = "returned" =>
          \A i \in 1..Len(symbols) : outcome[i] # "pending"

\* C7 witness: a run returned after a symbol failed at parse and a later
\* one raised an exception in the Store.
C7_Witness ==
    /\ pc = "returned"
    /\ \E i, j \in 1..Len(symbols) :
          i < j /\ outcome[i] = "parse_failed" /\ outcome[j] = "exception"

\* C8: a symbol failing at the Store leaves the table as it was when its
\* Store call began and makes the result failure; the rows committed for
\* the other symbols are in the table, and the symbols after it are still
\* fetched, so a returned run has every symbol in a terminal state.
C8_FailureIsolation ==
    /\ (pc = "next" /\ outcome[idx] \in {"store_failed", "exception"}) =>
          (table = saveStartTable /\ ~overall_success)
    /\ Fields(ledger) \subseteq Fields(table)
    /\ \A i \in 1..Len(symbols) :
          outcome[i] = "stored_ok" => \E r \in table : r.symbol = symbols[i]
    /\ pc = "returned" =>
          \A i \in 1..Len(symbols) :
              outcome[i] # "pending" /\ <<i, "fetch">> \in Range(trace)

\* C8 witness: a run of three symbols returned with the second failed at
\* the Store and the first and third stored.
C8_Witness ==
    /\ pc = "returned"
    /\ Len(symbols) = 3
    /\ outcome[1] = "stored_ok"
    /\ outcome[2] = "store_failed"
    /\ outcome[3] = "stored_ok"
    /\ ~overall_success

\* C9: a live call answered by an Information body or ended by a timeout
\* gives demo data of 7 entries, which parse to 7 records, which the
\* Store, if the database accepts them, commits as 7 rows, and the symbol
\* ends stored_ok.
C9_FallbackCompletes ==
    /\ (pc = "fetched" /\ (response.status = "Timeout"
                            \/ response.keys = {"Information"})) =>
          (raw_data.meta = "demo" /\ Cardinality(DOMAIN raw_data.ts) = 7)
    /\ (pc = "save" /\ raw_data.meta = "demo") => Len(parsed_records) = 7
    /\ (pc = "sleep" /\ raw_data.meta = "demo") =>
          /\ outcome[idx] = "stored_ok"
          /\ Cardinality({r \in table : \E i \in 1..Len(parsed_records) :
                             /\ SameKey(r, parsed_records[i])
                             /\ r.quote = parsed_records[i].quote}) = 7

\* C10: every mapping get_demo_data returns has exactly 7 entries, keyed
\* by a day (today) and the 6 days before it.
C10_SevenConsecutiveDates ==
    (pc = "fetched" /\ raw_data.meta = "demo") =>
        /\ Cardinality(DOMAIN raw_data.ts) = 7
        /\ \E t \in StartDay..(StartDay + MaxClockAdvance) :
              DOMAIN raw_data.ts = {strftime(t - i) : i \in 0..6}

\* --------------------------------------------------- the parser alone
\* the keys a time series can carry: the MaxSeriesDays days up to
\* StartDay, and one key that is no date
SeriesKeys ==
    {strftime(StartDay - j) : j \in 0..(MaxSeriesDays - 1)} \cup {BadDateKey}

\* the five fields of one day: all numeric, one of them not numeric, or
\* one of them absent
DayFields(kind, q) ==
    CASE kind = "numeric" -> Fmt(q)
      [] kind = "text"    -> BadField
      [] kind = "absent"  -> NoField

\* the values parse_stock_data is called with: None, a dict without the
\* series, and series over any set of keys in which at most one day has a
\* field that does not convert
ParseInputs ==
    {NoData, NoSeries}
    \cup {[meta |-> "live",
           ts   |-> [k \in S |-> IF k = dk THEN DayFields(kind, q)
                                 ELSE Fmt(q)]] :
             S \in SUBSET SeriesKeys, q \in Quotes, dk \in SeriesKeys,
             kind \in {"numeric", "text", "absent"}}

\* run_pipeline(['AAPL']) at `parsed_records = self.parse_stock_data(...)`
InitParse ==
    \E data \in ParseInputs : StartAt(<<"AAPL">>, "parse", data, << >>)

NextParse == Parse \/ Continue

SpecParse == InitParse /\ [][NextParse]_vars

\* the statement after the call of parse_stock_data has been reached
Parsed ==
    \/ pc = "save"
    \/ pc = "next" /\ outcome[idx] = "parse_failed"

\* every key is a date and every field converts
WellFormed(data) ==
    /\ HasSeries(data)
    /\ \A k \in DOMAIN data.ts : IsDate(k) /\ IsNumeric(data.ts[k])

Min(a, b) == IF a < b THEN a ELSE b

\* C11: of a series of N well-formed entries parse_stock_data returns
\* min(N, 7) records; their dates are dates of the series, strictly
\* descending (so no date twice), and every date of the series that is
\* not returned is older than every returned one.
C11_SevenMostRecentDescending ==
    (Parsed /\ WellFormed(raw_data)) =>
        LET days == {strptime(k) : k \in DOMAIN raw_data.ts}
            got  == {parsed_records[i].date : i \in 1..Len(parsed_records)}
        IN  /\ Len(parsed_records) = Min(Cardinality(DOMAIN raw_data.ts), 7)
            /\ \A i, j \in 1..Len(parsed_records) :
                   i < j => parsed_records[i].date > parsed_records[j].date
            /\ got \subseteq days
            /\ \A d \in days \ got : \A g \in got : d < g

\* C11 witness: a well-formed series of 9 entries has been parsed to 7
\* records.
C11_Witness ==
    /\ pc = "save"
    /\ WellFormed(raw_data)
    /\ Cardinality(DOMAIN raw_data.ts) = 9
    /\ Len(parsed_records) = 7

\* ------------------------------------------------------------- pacing
\* the positions of the trace at which symbol i paused
PausesOf(i) == {k \in 1..Len(trace) : trace[k] = <<i, "sleep">>}

\* C12: a symbol pauses at most once and only when it is stored_ok; once
\* the loop has moved past a stored symbol it has paused exactly once, and
\* a failed symbol never pauses, so a returned run has as many pauses as
\* stored symbols; every pause directly follows the Store call of its own
\* symbol, whose rows are committed, and nothing but the fetch of the next
\* symbol follows it.
C12_PauseAfterEachStoredSymbol ==
    /\ \A i \in 1..Len(symbols) :
          /\ Cardinality(PausesOf(i)) <= 1
          /\ PausesOf(i) # {} =>
                /\ outcome[i] = "stored_ok"
                /\ \E r \in table : r.symbol = symbols[i]
          /\ outcome[i] \in Failed => PausesOf(i) = {}
          /\ (outcome[i] = "stored_ok" /\ (i < idx \/ pc = "next")) =>
                Cardinality(PausesOf(i)) = 1
          /\ \A k \in PausesOf(i) :
                /\ k > 1 /\ trace[k - 1] = <<i, "store">>
                /\ k < Len(trace) => trace[k + 1] = <<i + 1, "fetch">>
    /\ pc = "returned" =>
          Cardinality({k \in 1..Len(trace) : trace[k][2] = "sleep"})
              = Cardinality({i \in 1..Len(symbols) : outcome[i] = "stored_ok"})

\* C12 witness: a run returned with one symbol failed at the Store and the
\* other stored, after exactly one pause.
C12_Witness ==
    /\ pc = "returned"
    /\ \E i, j \in 1..Len(symbols) :
          /\ outcome[i] = "store_failed"
          /\ outcome[j] = "stored_ok"
          /\ PausesOf(i) = {}
          /\ Cardinality(PausesOf(j)) = 1

\* ---------------------------------------------------------- exit code
\* C13: when the process has ended, its exit code is 0 if every symbol was
\* stored and is not 0 if a symbol failed.
C13_ExitCodeReflectsOutcome ==
    pc = "exited" =>
        /\ (\A i \in 1..Len(symbols) : outcome[i] = "stored_ok") =>
              exit_code = 0
        /\ (\E i \in 1..Len(symbols) : outcome[i] \in Failed) =>
              exit_code # 0

\* ---------------------------------------------------- the Store alone
\* the lists save_to_database is called with: the empty list, and lists
\* of up to 7 records of consecutive days
StoreBatches ==
    {[i \in 1..n |-> [symbol |-> "AAPL", date |-> StartDay + 1 - i,
                      quote |-> q]] :
        n \in 0..ParseLimit, q \in Quotes}

\* a call save_to_database(records) for each list, and run_pipeline(['AAPL'])
\* at the call of parse_stock_data for each input of at most one day
InitStore ==
    \/ \E recs \in StoreBatches : StartAt(<<"AAPL">>, "save", NoData, recs)
    \/ \E data \in {d \in ParseInputs : Cardinality(DOMAIN d.ts) <= 1} :
          StartAt(<<"AAPL">>, "parse", data, << >>)

NextStore ==
    \/ Parse
    \/ Connect
    \/ Cursor
    \/ Execute
    \/ Commit
    \/ Rollback
    \/ Finally
    \/ Continue

SpecStore == InitStore /\ [][NextStore]_vars

\* C14: save_to_database called with the empty list returns False with no
\* exception, no connection acquired and the table as it was, and runs
\* none of its statements after the check; in run_pipeline a symbol whose
\* parse returned the empty list ends parse_failed with the result
\* failure, and save_to_database is not called for it.
C14_EmptyBatchRejected ==
    /\ (pc = "saved" /\ Len(parsed_records) = 0) =>
          /\ retval = FALSE
          /\ raised = "none"
          /\ connection = "none"
          /\ openConns = 0
          /\ table = saveStartTable
    /\ pc \in {"cursor", "exec", "commit", "except", "finally"} =>
          Len(parsed_records) > 0
    /\ (<<idx, "parse">> \in Range(trace) /\ Len(parsed_records) = 0) =>
          /\ pc = "next"
          /\ outcome[idx] = "parse_failed"
    /\ \A i \in 1..Len(symbols) :
          outcome[i] = "parse_failed" =>
              <<i, "store">> \notin Range(trace) /\ ~overall_success

\* C14 witness: a call of save_to_database with the empty list has
\* returned.
C14_Witness ==
    /\ pc = "saved"
    /\ Len(parsed_records) = 0
    /\ trace = << <<1, "store">> >>

\* ------------------------------------------------- conversion failures
\* the keys of the entries parse_stock_data converts: the 7 greatest
Converted(data) ==
    {k \in DOMAIN data.ts :
        Cardinality({o \in DOMAIN data.ts : StrLess(k, o)}) < 7}

\* a conversion fails: the series is missing, or one of the converted
\* entries has a key that is no date or a field that is not numeric or is
\* absent
ConversionFails(data) ==
    \/ ~HasSeries(data)
    \/ \E k \in Converted(data) : ~IsDate(k) \/ ~IsNumeric(data.ts[k])

\* C15: when a conversion fails parse_stock_data returns the empty list
\* and raises nothing, and run_pipeline records parse_failed and goes on
\* to the end of the loop; the list returned is never a part of the
\* converted entries: it is empty or holds every one of them (an entry
\* older than the 7 most recent is not converted, and cannot fail).
C15_ConversionFailureEmptiesBatch ==
    /\ (Parsed /\ ConversionFails(raw_data)) =>
          /\ parsed_records = << >>
          /\ pc = "next"
          /\ outcome[idx] = "parse_failed"
          /\ ~overall_success
    /\ (Parsed /\ ~ConversionFails(raw_data)) =>
          Len(parsed_records) = Cardinality(Converted(raw_data))
    /\ \A i \in 1..Len(symbols) : outcome[i] # "exception"
    /\ pc = "returned" => outcome[1] = "parse_failed"

\* C15 witness: a series of 3 entries, the oldest with a field that is
\* not numeric, was parsed to the empty list and the symbol is
\* parse_failed.
C15_Witness ==
    /\ pc = "next"
    /\ outcome[idx] = "parse_failed"
    /\ parsed_records = << >>
    /\ Cardinality(DOMAIN raw_data.ts) = 3
    /\ \E k \in DOMAIN raw_data.ts :
          /\ raw_data.ts[k] = BadField
          /\ \A o \in DOMAIN raw_data.ts : o = k \/ StrLess(k, o)

\* --------------------------------------------------------- credential
\* C16: without a credential the process ends at the construction with
\* exit code 1: no fetch, no fallback data, no Store call, no connection,
\* no row and no symbol attempted; with a credential a process that ends
\* with a nonzero code, and every run_pipeline that returns, has fetched
\* every symbol and left none pending.
C16_OnlyMissingKeyStopsBeforeSymbols ==
    /\ KeyMissing(api_key) =>
          /\ pc \in {"main", "exited"}
          /\ pc = "exited" => exit_code = 1
          /\ trace = << >>
          /\ raw_data = NoData
          /\ table = {}
          /\ connection = "none" /\ openConns = 0
          /\ \A i \in 1..Len(symbols) : outcome[i] = "pending"
    /\ (~KeyMissing(api_key)
          /\ (pc = "returned" \/ (pc = "exited" /\ exit_code # 0))) =>
          \A i \in 1..Len(symbols) :
              <<i, "fetch">> \in Range(trace) /\ outcome[i] # "pending"

\* C16 witness: the process has ended with code 1 because the credential
\* is the empty string.
C16_Witness ==
    /\ api_key = ""
    /\ pc = "exited"
    /\ exit_code = 1

\* ------------------------------------- one iteration of get_demo_data
\* Prices are counted in thousandths of a dollar and the random factors
\* in ten-thousandths, so uniform(-0.05, 0.05) ranges over -500..500.
\* base_price of line 52
base_price(symbol) ==
    CASE symbol = "AAPL"  -> 150000
      [] symbol = "GOOGL" -> 2500000
      [] symbol = "MSFT"  -> 300000
      [] OTHER            -> 100000

\* x * (1 + u), rounded to the nearest thousandth of a dollar
Scale(x, u) == x + (x * u + 5000) \div 10000

\* f"{x:.2f}": the price to the nearest cent, as a number of cents
Fmt2(x) == (x + 5) \div 10

Max(a, b) == IF a > b THEN a ELSE b

\* the values random.uniform(lo, hi) / random.randint(lo, hi) are drawn
\* from: both ends, DrawSteps - 1 values between them, and the values
\* next to 0
Grid(lo, hi) ==
    {lo + ((hi - lo) * k) \div DrawSteps : k \in 0..DrawSteps}
    \cup ({-1, 1} \cap lo..hi)

\* the draws of lines 58-63
DrawSets ==
    [open_jitter  : Grid(-200, 200),
     daily_change : Grid(-500, 500),
     high_jitter  : Grid(0, 300),
     low_jitter   : Grid(0, 300),
     volume       : Grid(1000000, 10000000)]

\* demo_entry with a fault: the high is taken above the open only
demo_entry_high_of_open(symbol, d) ==
    LET open_price  == Scale(base_price(symbol), d.open_jitter)
        close_price == Scale(open_price, d.daily_change)
        high_price  == Scale(open_price, d.high_jitter)
        low_price   == Scale(Min(open_price, close_price), -d.low_jitter)
    IN  [open |-> Fmt2(open_price), high |-> Fmt2(high_price),
         low |-> Fmt2(low_price), close |-> Fmt2(close_price),
         volume |-> d.volume]

\* lines 59-71: the entry one iteration emits for the draws d; the
\* prices as the cents of their two-decimal text, the volume as the
\* number its text denotes
demo_entry(symbol, d) ==
    LET open_price  == Scale(base_price(symbol), d.open_jitter)
        close_price == Scale(open_price, d.daily_change)
        high_price  == Scale(Max(open_price, close_price), d.high_jitter)
        low_price   == Scale(Min(open_price, close_price), -d.low_jitter)
    IN  [open |-> Fmt2(open_price), high |-> Fmt2(high_price),
         low |-> Fmt2(low_price), close |-> Fmt2(close_price),
         volume |-> d.volume]

\* the symbols get_demo_data is called for: the three with a base price
\* and one without
DemoSymbols == {"AAPL", "GOOGL", "MSFT", "IBM"}

\* get_demo_data(symbol) inside an iteration, the draws made
InitDemo ==
    \E symbol \in DemoSymbols, d \in DrawSets :
        /\ Process("demo-key", <<symbol>>, "demo", NoData, << >>)
        /\ draws = d
        /\ entry = NoEntry
        /\ NoDagRun

\* time_series[date] = {...}
Emit ==
    /\ pc = "demo"
    /\ entry' = demo_entry(symbols[idx], draws)
    /\ pc' = "demo_done"
    /\ UNCHANGED <<runnerVars, dataVars, dbVars, trace, exit_code, api_key,
                   draws, ti_state, try_number, in_call>>

NextDemo == Emit

SpecDemo == InitDemo /\ [][NextDemo]_vars

\* C17: every entry get_demo_data emits has, in its two-decimal prices,
\* low <= min(open, close) and high >= max(open, close), all four prices
\* above 0, and a volume from 1,000,000 to 10,000,000, for the three
\* symbols with a base price and for one without.
C17_DemoEntryInvariants ==
    pc = "demo_done" =>
        /\ entry.low <= Min(entry.open, entry.close)
        /\ entry.high >= Max(entry.open, entry.close)
        /\ entry.open > 0 /\ entry.high > 0
        /\ entry.low > 0 /\ entry.close > 0
        /\ entry.volume \in 1000000..10000000

\* C17 witness: an entry emitted for a symbol without a base price, the
\* close above the open, the high equal to the close and the low equal to
\* the open, with the greatest volume.
C17_Witness ==
    /\ pc = "demo_done"
    /\ symbols = <<"IBM">>
    /\ entry.close > entry.open
    /\ entry.high = entry.close
    /\ entry.low = entry.open
    /\ entry.volume = 10000000

\* ------------------------------------------ the DAG stock_data_pipeline
\* Upstream with a fault: the fetch tasks do not wait for the database
\* check
UpstreamWithoutDbCheck(t) ==
    CASE t = "start_pipeline"    -> {}
      [] t \in CheckTasks        -> {"start_pipeline"}
      [] t \in FetchTasks        -> {"check_api_connection"}
      [] t = "verify_data_saved" -> FetchTasks
      [] t = "pipeline_complete" -> {"verify_data_saved"}

\* the tasks t is set downstream of with >>
Upstream(t) ==
    CASE t = "start_pipeline"    -> {}
      [] t \in CheckTasks        -> {"start_pipeline"}
      [] t \in FetchTasks        -> CheckTasks
      [] t = "verify_data_saved" -> FetchTasks
      [] t = "pipeline_complete" -> {"verify_data_saved"}

\* the EmptyOperator tasks run nothing, and so do not fail
EmptyTasks == {"start_pipeline", "pipeline_complete"}

\* one run of the DAG is created; the process of main is not looked at
InitDag ==
    /\ Process("demo-key", DefaultSymbols, "fetch", NoData, << >>)
    /\ NoDemo
    /\ NoDagRun

\* a task instance is started (trigger rule all_success, no task set
\* otherwise): it has no try running, and every upstream task has
\* succeeded.  Nothing in the DAG limits the tasks that run at a time.
\* The process of a fetch task goes into its API call
StartTask(t) ==
    /\ ti_state[t] \in {"none", "up_for_retry"}
    /\ \A u \in Upstream(t) : ti_state[u] = "success"
    /\ ti_state' = [ti_state EXCEPT ![t] = "running"]
    /\ try_number' = [try_number EXCEPT ![t] = @ + 1]
    /\ in_call' = IF t \in FetchTasks THEN in_call \cup {t} ELSE in_call
    /\ UNCHANGED <<runnerVars, pc, dataVars, dbVars, trace, exit_code,
                   api_key, draws, entry>>

\* the API call of the process of a fetch task returns
CallReturns(t) ==
    /\ t \in in_call
    /\ in_call' = in_call \ {t}
    /\ UNCHANGED <<runnerVars, pc, dataVars, dbVars, trace, exit_code,
                   api_key, draws, entry, ti_state, try_number>>

\* a running task ends: with success, or with a failure (its callable
\* raised, its command exited with a code other than 0), after which it
\* is tried again while tries are left (retries: 2)
FinishTask(t) ==
    /\ ti_state[t] = "running"
    /\ t \notin in_call
    /\ \E ok \in BOOLEAN :
          /\ ~ok => t \notin EmptyTasks
          /\ ti_state' = [ti_state EXCEPT ![t] =
                 IF ok THEN "success"
                 ELSE IF try_number[t] <= Retries THEN "up_for_retry"
                 ELSE "failed"]
    /\ UNCHANGED <<runnerVars, pc, dataVars, dbVars, trace, exit_code,
                   api_key, draws, entry, try_number, in_call>>

\* a task with an upstream task that failed, or was not run for that
\* reason, is not run
MarkUpstreamFailed(t) ==
    /\ ti_state[t] = "none"
    /\ \E u \in Upstream(t) : ti_state[u] \in {"failed", "upstream_failed"}
    /\ ti_state' = [ti_state EXCEPT ![t] = "upstream_failed"]
    /\ UNCHANGED <<runnerVars, pc, dataVars, dbVars, trace, exit_code,
                   api_key, draws, entry, try_number, in_call>>

NextDag ==
    \/ \E t \in Tasks : StartTask(t)
    \/ \E t \in Tasks : CallReturns(t)
    \/ \E t \in Tasks : FinishTask(t)
    \/ \E t \in Tasks : MarkUpstreamFailed(t)

SpecDag == InitDag /\ [][NextDag]_vars

\* C18: in a run of the DAG the API call of at most one symbol is in
\* progress at any time.
C18_OneSymbolAtATime == Cardinality(in_call) <= 1

\* a try of task t has been started
Started(t) == try_number[t] > 0

\* C20: a fetch task is started only when both check tasks have
\* succeeded, verify_data_saved only when the three fetch tasks have
\* succeeded, and pipeline_complete only when verify_data_saved has
\* succeeded; when a check task has failed no fetch task is ever started.
C20_TaskOrder ==
    /\ \A f \in FetchTasks :
          Started(f) => \A c \in CheckTasks : ti_state[c] = "success"
    /\ Started("verify_data_saved") =>
          \A f \in FetchTasks : ti_state[f] = "success"
    /\ Started("pipeline_complete") =>
          ti_state["verify_data_saved"] = "success"
    /\ (\E c \in CheckTasks : ti_state[c] = "failed") =>
          \A f \in FetchTasks :
              ~Started(f) /\ ti_state[f] \in {"none", "upstream_failed"}

\* C20 witness: pipeline_complete has succeeded in a run in which a check
\* task and a fetch task each needed a second try.
C20_Witness ==
    /\ ti_state["pipeline_complete"] = "success"
    /\ try_number["check_database_connection"] = 2
    /\ try_number["fetch_msft_data"] = 2

\* ------------------------------------------------------ classification
\* the indicator keys of a body
Indicators == {"Error Message", "Note", "Information"}

\* C19: fetch_stock_data returns the live body exactly when the call
\* completed and the body has the series and no indicator key; a body
\* with Error Message or Note gives None whatever else it carries, a body
\* with Information and neither of those gives demo data even if it
\* carries the series, and a body with none of the four keys and a call
\* that did not complete give demo data.
C19_ClassifiedInFixedOrder ==
    pc = "fetched" =>
        LET ok == response.status = "ok"
            ks == response.keys
        IN  /\ raw_data.meta = "live" <=>
                  (ok /\ "Time Series (Daily)" \in ks
                      /\ ks \cap Indicators = {})
            /\ raw_data.meta = "live" => raw_data.ts = response.ts
            /\ (ok /\ ({"Error Message", "Note"} \cap ks # {})) =>
                  raw_data = NoData
            /\ (ok /\ "Information" \in ks
                   /\ {"Error Message", "Note"} \cap ks = {}) =>
                  raw_data.meta = "demo"
            /\ (ok /\ ks \cap BodyKeys = {}) => raw_data.meta = "demo"
            /\ ~ok => raw_data.meta = "demo"

\* C19 witness: a body with both the series and Information was answered
\* with demo data.
C19_Witness ==
    /\ pc = "fetched"
    /\ response.status = "ok"
    /\ response.keys = {"Information", "Time Series (Daily)"}
    /\ raw_data.meta = "demo"

=============================================================================
